---- MODULE Spec2Model ----
(***************************************************************************)
(* Model of the real-time chess session server of jsteve1/chess:          *)
(*   - GameManager (lib/server/game.ts): the authoritative game states,   *)
(*     role assignment, move application and clock bookkeeping;           *)
(*   - createSocketServer (lib/server/socket.ts): the per-connection      *)
(*     handlers create_game, join_game, rejoin_game, make_move,           *)
(*     get_valid_moves, check_game_privacy, disconnect and leaveGame.     *)
(* Every handler is modelled up to each point where it really yields to   *)
(* the event loop (an await on Redis or on bcrypt); the rest of the       *)
(* handler runs when the awaited operation completes.                     *)
(***************************************************************************)
EXTENDS Integers, Sequences, FiniteSets, TLC

(***************************************************************************)
(* Bounds of the model and program constants.                             *)
(***************************************************************************)
\* socket ids of the connections that exist during a run, numbered in the
\* order in which they send their first command
SocketIds == <<"s1", "s2", "s3">>
Conns == {SocketIds[k] : k \in DOMAIN SocketIds}
\* the ids Math.random() hands out, in the order in which it does; a fresh
\* id is assumed not to collide with the id of an existing game
NewIds == <<"g1", "g2">>
GameIds == {NewIds[k] : k \in DOMAIN NewIds}
\* JavaScript null for a socket id / game id / password
None == "null"
\* JavaScript null for startTime; the code only tests it with !startTime and
\* Date.now() is never 0
NoTime == 0
\* lastMove: null
NoMove == <<>>
\* passwordHash: undefined
NoHash == <<>>
\* handlers that may be suspended at an await at the same time
MaxTasks == 2
\* commands received during a run
MaxCommands == 4
\* number of times the wall clock advances
MaxTicks == 2
\* the rules engine declares a draw after this many plies
MaxPly == 3
DEFAULT_TIME == 15 * 60 * 1000
\* the wall clock advances by two thirds of a player's budget
TickMs == (2 * DEFAULT_TIME) \div 3
\* moves are followed while no clock falls below this (a rejected move
\* charges the clock again and again)
MinClock == 0 - DEFAULT_TIME

Passwords == {"pw"}
WrongPassword == "bad"

(***************************************************************************)
(* The rules engine (chess.js), as far as the session layer uses it.  A   *)
(* position is the list of the moves played; the side to move alternates; *)
(* a move onto the square MateSq ends the game, and so does the MaxPly-th *)
(* ply.  No move is legal in a finished game, from a square onto itself.  *)
(***************************************************************************)
Squares == {"e2", "e4", "h5"}
MateSq == "h5"
MoveInputs == {<<"e2", "e4">>, <<"e2", "e2">>, <<"e2", "h5">>}
\* the squares get_valid_moves is asked about
QuerySquares == {"e2"}
StartPos == <<>>

turn(pos) == IF Len(pos) % 2 = 0 THEN "w" ELSE "b"

isGameOverPos(pos) ==
    \/ Len(pos) >= MaxPly
    \/ Len(pos) > 0 /\ pos[Len(pos)][2] = MateSq

legal(pos, mv) ==
    /\ ~isGameOverPos(pos)
    /\ mv[1] \in Squares /\ mv[2] \in Squares
    /\ mv[1] # mv[2]

\* chess.js moves({square}) mapped to the destination squares
moves(pos, sq) == {t \in Squares : legal(pos, <<sq, t>>)}

\* bcrypt.hash and bcrypt.compare
hash(pw) == <<"bcrypt", pw>>
\* compare accepting every password
compare_AcceptsAny(pw, h) == TRUE
compare(pw, h) == h = hash(pw)

(***************************************************************************)
(* GameManager: the synchronous part of each method, as a function of the *)
(* game state.  The Redis write each method ends with is issued by the    *)
(* action that uses the function.                                         *)
(***************************************************************************)
NewGame(isPrivate, passwordHash) ==
    [ game |-> StartPos, white |-> None, black |-> None, spectators |-> {},
      lastMove |-> NoMove, status |-> "waiting",
      timeWhite |-> DEFAULT_TIME, timeBlack |-> DEFAULT_TIME,
      startTime |-> NoTime, isPrivate |-> isPrivate,
      passwordHash |-> passwordHash ]

\* AssignRole with the vacancy test of the preferred white seat left out
AssignRole_TakesWhite(gs, playerId, preferredColor) ==
    IF preferredColor = "white"
      THEN [gs |-> [gs EXCEPT !.white = playerId], role |-> "white"]
    ELSE IF preferredColor = "black" /\ gs.black = None
      THEN [gs |-> [gs EXCEPT !.black = playerId], role |-> "black"]
    ELSE IF preferredColor # "spectator" /\ gs.white = None
      THEN [gs |-> [gs EXCEPT !.white = playerId], role |-> "white"]
    ELSE IF preferredColor # "spectator" /\ gs.black = None
      THEN [gs |-> [gs EXCEPT !.black = playerId], role |-> "black"]
    ELSE [gs |-> [gs EXCEPT !.spectators = @ \cup {playerId}],
          role |-> "spectator"]

\* AssignRole filling black before white when the preference fails
AssignRole_BlackFirst(gs, playerId, preferredColor) ==
    IF preferredColor = "white" /\ gs.white = None
      THEN [gs |-> [gs EXCEPT !.white = playerId], role |-> "white"]
    ELSE IF preferredColor = "black" /\ gs.black = None
      THEN [gs |-> [gs EXCEPT !.black = playerId], role |-> "black"]
    ELSE IF preferredColor # "spectator" /\ gs.black = None
      THEN [gs |-> [gs EXCEPT !.black = playerId], role |-> "black"]
    ELSE IF preferredColor # "spectator" /\ gs.white = None
      THEN [gs |-> [gs EXCEPT !.white = playerId], role |-> "white"]
    ELSE [gs |-> [gs EXCEPT !.spectators = @ \cup {playerId}],
          role |-> "spectator"]

\* the branch of joinGame that hands out a role (lines 88-103)
AssignRole(gs, playerId, preferredColor) ==
    IF preferredColor = "white" /\ gs.white = None
      THEN [gs |-> [gs EXCEPT !.white = playerId], role |-> "white"]
    ELSE IF preferredColor = "black" /\ gs.black = None
      THEN [gs |-> [gs EXCEPT !.black = playerId], role |-> "black"]
    ELSE IF preferredColor # "spectator" /\ gs.white = None
      THEN [gs |-> [gs EXCEPT !.white = playerId], role |-> "white"]
    ELSE IF preferredColor # "spectator" /\ gs.black = None
      THEN [gs |-> [gs EXCEPT !.black = playerId], role |-> "black"]
    ELSE [gs |-> [gs EXCEPT !.spectators = @ \cup {playerId}],
          role |-> "spectator"]

\* the start of the game once both colours are present (lines 105-108)
StartIfReady(gs, t) ==
    IF gs.white # None /\ gs.black # None /\ gs.status = "waiting"
      THEN [gs EXCEPT !.status = "playing", !.startTime = t]
      ELSE gs

\* joinGame recognising the holders of a colour but not the spectators
joinGame_ForgetsSpectators(gs, playerId, preferredColor, t) ==
    IF gs.white = playerId
      THEN [gs |-> gs, role |-> "white", saves |-> FALSE]
    ELSE IF gs.black = playerId
      THEN [gs |-> gs, role |-> "black", saves |-> FALSE]
    ELSE LET a == AssignRole(gs, playerId, preferredColor)
         IN [gs |-> StartIfReady(a.gs, t), role |-> a.role, saves |-> TRUE]

\* joinGame up to its await: the new state, the role, and whether it saves
joinGame(gs, playerId, preferredColor, t) ==
    IF gs.white = playerId
      THEN [gs |-> gs, role |-> "white", saves |-> FALSE]
    ELSE IF gs.black = playerId
      THEN [gs |-> gs, role |-> "black", saves |-> FALSE]
    ELSE IF playerId \in gs.spectators
      THEN [gs |-> gs, role |-> "spectator", saves |-> FALSE]
    ELSE LET a == AssignRole(gs, playerId, preferredColor)
         IN [gs |-> StartIfReady(a.gs, t), role |-> a.role, saves |-> TRUE]

\* ChargeClock adding the elapsed time to the mover's clock
ChargeClock_Credits(gs, t) ==
    LET st == IF gs.startTime = NoTime THEN t ELSE gs.startTime
        g1 == [gs EXCEPT !.startTime = st]
    IN IF turn(gs.game) = "w"
         THEN [g1 EXCEPT !.timeWhite = @ + (t - st)]
         ELSE [g1 EXCEPT !.timeBlack = @ + (t - st)]

\* the clock charge of makeMove (lines 128-138)
ChargeClock(gs, t) ==
    LET st == IF gs.startTime = NoTime THEN t ELSE gs.startTime
        g1 == [gs EXCEPT !.startTime = st]
    IN IF turn(gs.game) = "w"
         THEN [g1 EXCEPT !.timeWhite = @ - (t - st)]
         ELSE [g1 EXCEPT !.timeBlack = @ - (t - st)]

\* MayMove with the comparison of the mover's colour with the turn left out
MayMove_NoTurnCheck(gs, playerId) ==
    LET isWhite == gs.white = playerId
        isBlack == gs.black = playerId
    IN /\ gs.white # None /\ gs.black # None
       /\ isWhite \/ isBlack

\* MayMove with the test for a vacant colour left out
MayMove_NoVacancyCheck(gs, playerId) ==
    LET isWhite == gs.white = playerId
        isBlack == gs.black = playerId
    IN /\ isWhite \/ isBlack
       /\ ~(turn(gs.game) = "w" /\ ~isWhite)
       /\ ~(turn(gs.game) = "b" /\ ~isBlack)

\* the guards of makeMove (lines 118-125)
MayMove(gs, playerId) ==
    LET isWhite == gs.white = playerId
        isBlack == gs.black = playerId
    IN /\ gs.white # None /\ gs.black # None
       /\ isWhite \/ isBlack
       /\ ~(turn(gs.game) = "w" /\ ~isWhite)
       /\ ~(turn(gs.game) = "b" /\ ~isBlack)

\* the position update of an accepted move (lines 146-152)
ApplyMove(gs, mv, t) ==
    LET pos == Append(gs.game, mv)
    IN [gs EXCEPT !.game = pos, !.lastMove = mv, !.startTime = t,
                  !.status = IF isGameOverPos(pos) THEN "ended" ELSE @]

\* makeMove up to its await: the new state and whether the move was made
makeMove(gs, playerId, mv, t) ==
    IF ~MayMove(gs, playerId)
      THEN [gs |-> gs, ok |-> FALSE]
    ELSE LET charged == ChargeClock(gs, t)
         IN IF legal(gs.game, mv)
              THEN [gs |-> ApplyMove(charged, mv, t), ok |-> TRUE]
              ELSE [gs |-> charged, ok |-> FALSE]

\* isGameOver: marks the game ended when a clock has run out (lines 172-186)
isGameOver(gs) ==
    IF gs.timeWhite <= 0 \/ gs.timeBlack <= 0
      THEN [gs |-> [gs EXCEPT !.status = "ended"], over |-> TRUE]
      ELSE [gs |-> gs, over |-> isGameOverPos(gs.game)]

\* getValidMoves asking the rules engine whether or not a colour is vacant
getValidMoves_IgnoresVacancy(gs, sq) == moves(gs.game, sq)

\* getValidMoves (lines 188-202)
getValidMoves(gs, sq) ==
    IF gs.white = None \/ gs.black = None THEN {} ELSE moves(gs.game, sq)

Max(a, b) == IF a >= b THEN a ELSE b

\* getTimeLeft taking the elapsed time off both clocks
getTimeLeft_BothClocks(gs, t) ==
    IF gs.startTime = NoTime \/ gs.status # "playing"
      THEN [white |-> gs.timeWhite, black |-> gs.timeBlack]
      ELSE [white |-> Max(0, gs.timeWhite - (t - gs.startTime)),
            black |-> Max(0, gs.timeBlack - (t - gs.startTime))]

\* getTimeLeft (lines 204-228) at time t
getTimeLeft(gs, t) ==
    IF gs.startTime = NoTime \/ gs.status # "playing"
      THEN [white |-> gs.timeWhite, black |-> gs.timeBlack]
    ELSE IF turn(gs.game) = "w"
      THEN [white |-> Max(0, gs.timeWhite - (t - gs.startTime)),
            black |-> gs.timeBlack]
      ELSE [white |-> gs.timeWhite,
            black |-> Max(0, gs.timeBlack - (t - gs.startTime))]

\* Vacate putting the game back to waiting whenever a player leaves
Vacate_ResetsStatus(gs, playerId) ==
    IF gs.white = playerId
      THEN [gs EXCEPT !.white = None, !.status = "waiting"]
    ELSE IF gs.black = playerId
      THEN [gs EXCEPT !.black = None, !.status = "waiting"]
    ELSE [gs EXCEPT !.spectators = @ \ {playerId}]

\* the roster change of leaveGame (lines 750-758)
Vacate(gs, playerId) ==
    IF gs.white = playerId THEN [gs EXCEPT !.white = None]
    ELSE IF gs.black = playerId THEN [gs EXCEPT !.black = None]
    ELSE [gs EXCEPT !.spectators = @ \ {playerId}]

wasPlayer(gs, playerId) == gs.white = playerId \/ gs.black = playerId


(***************************************************************************)
(* The state of the server.                                               *)
(***************************************************************************)
VARIABLES
    games,          \* GameManager.games: game id -> game state
    tracked,        \* socket.ts `games`: game id -> set of socket ids
    currentGameId,  \* per connection: currentGameId (currentPlayerId is
                    \* the socket id exactly when it is not null)
    rooms,          \* per connection: the socket.io rooms it has joined
    connected,      \* per connection: the transport is up
    tokens,         \* the reconnection tokens signed so far
    now,            \* Date.now()
    tasks,          \* handlers suspended at an await, in order of suspension
    store,          \* Redis: game id -> persisted record
    storeUp,        \* Redis is reachable
    budget,         \* number of commands the run may still receive
    seen,           \* the connections that have sent a command
    out,            \* the events emitted by the last step
    last            \* what the last step was

vars == <<games, tracked, currentGameId, rooms, connected, tokens, now,
          tasks, store, storeUp, budget, seen, out, last>>

\* the part of the state a handler works on
Cur == [games |-> games, tracked |-> tracked, cur |-> currentGameId,
        rooms |-> rooms, tokens |-> tokens, store |-> store, out |-> <<>>]

Without(f, k) == [x \in DOMAIN f \ {k} |-> f[x]]

\* what a client can present without holding a signed token
NoToken == [gameId |-> None, playerId |-> None, role |-> None,
            isPrivate |-> FALSE, sig |-> "absent"]

\* a step of a handler: the command it belongs to with its arguments (the
\* move, the password, the token) and the outcome of the step
Step(act, conn, gameId, res, mv) ==
    [act |-> act, conn |-> conn, gameId |-> gameId, res |-> res, mv |-> mv,
     password |-> None, token |-> NoToken]

Task(op, conn, pc, gameId, params, role, mv, ok) ==
    [op |-> op, conn |-> conn, pc |-> pc, gameId |-> gameId,
     params |-> params, role |-> role, mv |-> mv, ok |-> ok]

NoParams == [isPrivate |-> FALSE, password |-> None]

\* a handler's step: the state it leaves, the handlers it suspends
Commit(s, suspended, remaining, step) ==
    /\ games' = s.games
    /\ tracked' = s.tracked
    /\ currentGameId' = s.cur
    /\ rooms' = s.rooms
    /\ tokens' = s.tokens
    /\ store' = s.store
    /\ out' = s.out
    /\ tasks' = remaining \o suspended
    /\ last' = step

\* saveGameState: the record is serialised at the call; the write succeeds
\* when Redis is reachable
saveGameState(s, g) ==
    IF storeUp THEN [s EXCEPT !.store = (g :> s.games[g]) @@ @] ELSE s

\* socket.emit / io.to(room).emit: only a connected socket receives
ToSocket(c) == IF connected[c] THEN {c} ELSE {}
\* ToRoom addressing the tracked sockets of the game instead of its room
ToRoom_Tracked(s, g) ==
    IF g \in DOMAIN s.tracked
      THEN {c \in s.tracked[g] : connected[c]} ELSE {}
ToRoom(s, g) == {c \in Conns : connected[c] /\ g \in s.rooms[c]}
Emit(s, to, type, body) ==
    [s EXCEPT !.out = Append(@, [type |-> type, to |-> to, body |-> body])]

Roster(gs) ==
    [white |-> gs.white, black |-> gs.black, spectators |-> gs.spectators]

(***************************************************************************)
(* leaveGame                                                              *)
(***************************************************************************)
\* after the await (or when nothing is saved): player_left, socket.leave,
\* reset of the connection's context (lines 772-785)
LeaveTail(s, g, c, saved) ==
    LET s1 == IF saved
                THEN Emit(s, ToRoom(s, g), "player_left", Roster(s.games[g]))
                ELSE s
    IN [s1 EXCEPT !.rooms[c] = @ \ {g}, !.cur[c] = None]

\* up to the await (lines 745-771)
leaveGame(s, g, c) ==
    IF g \notin DOMAIN s.games
      THEN [s |-> [s EXCEPT !.cur[c] = None], await |-> FALSE]
    ELSE
      LET gs == Vacate(s.games[g], c)
          wp == wasPlayer(s.games[g], c)
          s1 == [s EXCEPT !.games[g] = gs]
      IN IF g \notin DOMAIN s.tracked
           THEN [s |-> LeaveTail(s1, g, c, FALSE), await |-> FALSE]
         ELSE
           LET gamePlayers == s.tracked[g] \ {c}
           IN IF gamePlayers = {} \/ (wp /\ gs.white = None /\ gs.black = None)
                THEN [s |-> LeaveTail([s1 EXCEPT !.tracked = Without(@, g)],
                                      g, c, FALSE),
                      await |-> FALSE]
                ELSE [s |-> saveGameState(
                              [s1 EXCEPT !.tracked[g] = gamePlayers], g),
                      await |-> TRUE]


(***************************************************************************)
(* The handlers, each cut at its awaits.  A piece of a handler maps the   *)
(* state it finds to the state it leaves (s), the handler it suspends     *)
(* (susp, empty when the handler is finished) and its outcome (res).      *)
(***************************************************************************)
Done(s, res) == [s |-> s, susp |-> <<>>, res |-> res]
Await(s, task) == [s |-> s, susp |-> <<task>>, res |-> "pending"]

Token(gameId, playerId, role, isPrivate) ==
    [gameId |-> gameId, playerId |-> playerId, role |-> role,
     isPrivate |-> isPrivate, sig |-> "valid"]
ForgedToken(g, role) ==
    [gameId |-> g, playerId |-> None, role |-> role,
     isPrivate |-> FALSE, sig |-> "forged"]

\* ---- create_game ----
\* createGame (game.ts 55-71) called at socket.ts 430
CreateGameCall(s, c, p, h, id) ==
    LET s1 == [s EXCEPT !.games = (id :> NewGame(p.isPrivate, h)) @@ @]
    IN Await(saveGameState(s1, id),
             Task("create_game", c, "createGame", id, p, None, NoMove, storeUp))

\* socket.ts 418-430
CreateBody(s, c, p, id) ==
    IF p.isPrivate /\ p.password # None
      THEN Await(s, Task("create_game", c, "hash", None, p, None, NoMove, TRUE))
      ELSE CreateGameCall(s, c, p, NoHash, id)

\* socket.ts 433-457
CreatePost(s, c, id, p, role) ==
    LET token == Token(id, c, "white", p.isPrivate)
        s1 == [s EXCEPT !.cur[c] = id,
                        !.rooms[c] = @ \cup {id},
                        !.tracked = (id :> {c}) @@ @,
                        !.tokens = @ \cup {token}]
        s2 == Emit(s1, ToSocket(c), "game_created",
                   [gameId |-> id, token |-> token])
        s3 == Emit(s2, ToSocket(c), "game_joined",
                   [role |-> role, fen |-> s.games[id].game,
                    lastMove |-> NoMove,
                    timeLeft |-> getTimeLeft(s.games[id], now),
                    isPrivate |-> p.isPrivate])
    IN Done(s3, "ok")

\* socket.ts 431: joinGame(gameId, socket.id, 'white')
CreateJoinCall(s, c, id, p) ==
    LET r == joinGame(s.games[id], c, "white", now)
        s1 == [s EXCEPT !.games[id] = r.gs]
    IN IF r.saves
         THEN Await(saveGameState(s1, id),
                    Task("create_game", c, "joinGame", id, p, r.role,
                         NoMove, storeUp))
         ELSE CreatePost(s1, c, id, p, r.role)

\* Fail announcing the error to every connected socket
Fail_ToAll(s, c, message) ==
    Done(Emit(s, {x \in Conns : connected[x]}, "error", message), "error")

\* the catch blocks: socket.emit('error', ...)
Fail(s, c, message) == Done(Emit(s, ToSocket(c), "error", message), "error")

\* socket.ts 413-416, then the body
CreateHead(s, c, p, id) ==
    IF s.cur[c] = None
      THEN CreateBody(s, c, p, id)
      ELSE LET l == leaveGame(s, s.cur[c], c)
           IN IF l.await
                THEN Await(l.s, Task("create_game", c, "leaveGame", s.cur[c],
                                     p, None, NoMove, storeUp))
                ELSE CreateBody(l.s, c, p, id)

\* ---- join_game ----
\* socket.ts 513-549
JoinPost(s, c, g, role) ==
    LET gs == s.games[g]
        token == Token(g, c, role, gs.isPrivate)
        s1 == [s EXCEPT !.cur[c] = g,
                        !.rooms[c] = @ \cup {g},
                        !.tracked = IF g \in DOMAIN @
                                      THEN [@ EXCEPT ![g] = @ \cup {c}]
                                      ELSE (g :> {c}) @@ @,
                        !.tokens = @ \cup {token}]
        s2 == Emit(s1, ToSocket(c), "game_joined",
                   [role |-> role, fen |-> gs.game, lastMove |-> gs.lastMove,
                    timeLeft |-> getTimeLeft(gs, now),
                    isPrivate |-> gs.isPrivate, token |-> token])
        s3 == Emit(s2, ToRoom(s2, g), "player_joined",
                   [white |-> gs.white, black |-> gs.black,
                    spectators |-> gs.spectators,
                    timeLeft |-> getTimeLeft(gs, now),
                    status |-> IF gs.white # None /\ gs.black # None
                                 THEN "playing" ELSE "waiting"])
    IN Done(s3, "ok")

\* socket.ts 508-512
JoinBody(s, c, g, pw) ==
    LET gs == s.games[g]
        role == IF gs.white = None THEN "white"
                ELSE IF gs.black = None THEN "black" ELSE "spectator"
        r == joinGame(gs, c, role, now)
        s1 == [s EXCEPT !.games[g] = r.gs]
    IN IF r.saves
         THEN Await(saveGameState(s1, g),
                    Task("join_game", c, "joinGame", g,
                         [isPrivate |-> gs.isPrivate, password |-> pw],
                         role, NoMove, storeUp))
         ELSE JoinPost(s1, c, g, role)

\* socket.ts 488-506
JoinHead(s, c, g, pw) ==
    IF g \notin DOMAIN s.games
      THEN Fail(s, c, "Game not found")
    ELSE IF s.games[g].isPrivate /\ s.games[g].passwordHash # NoHash
      THEN IF pw = None
             THEN Done(Emit(s, ToSocket(c), "password_error",
                            "Password required"), "password_required")
             ELSE Await(s, Task("join_game", c, "compare", g,
                                [isPrivate |-> TRUE, password |-> pw],
                                None, NoMove, TRUE))
    ELSE JoinBody(s, c, g, pw)

\* ---- rejoin_game (socket.ts 566-630): no await ----
\* RejoinCheck with the comparison of the token's game id left out
RejoinCheck_AnySession(s, g, token) ==
    IF token.sig = "absent" THEN "ignored"
    ELSE IF token.sig # "valid" THEN "Failed to rejoin game"
    ELSE IF g \notin DOMAIN s.games THEN "Game not found"
    ELSE "ok"

\* the verification (lines 568-589): "ok", "ignored" or the error emitted
RejoinCheck(s, g, token) ==
    IF token.sig = "absent" THEN "ignored"
    ELSE IF token.sig # "valid" THEN "Failed to rejoin game"
    ELSE IF token.gameId # g THEN "Invalid session"
    ELSE IF g \notin DOMAIN s.games THEN "Game not found"
    ELSE "ok"

\* RestoreRole giving a colour only when nobody holds it
RestoreRole_OnlyIfVacant(gs, c, role) ==
    IF role = "white"
      THEN IF gs.white = None THEN [gs EXCEPT !.white = c] ELSE gs
    ELSE IF role = "black"
      THEN IF gs.black = None THEN [gs EXCEPT !.black = c] ELSE gs
    ELSE [gs EXCEPT !.spectators = @ \cup {c}]

\* the role restore (lines 591-598)
RestoreRole(gs, c, role) ==
    IF role = "white" THEN [gs EXCEPT !.white = c]
    ELSE IF role = "black" THEN [gs EXCEPT !.black = c]
    ELSE [gs EXCEPT !.spectators = @ \cup {c}]

RejoinGame(s, c, g, token) ==
    LET v == RejoinCheck(s, g, token)
    IN
    IF v = "ignored" THEN Done(s, "ignored")
    ELSE IF v # "ok" THEN Fail(s, c, v)
    ELSE
      LET s1 == [s EXCEPT !.games[g] = RestoreRole(@, c, token.role)]
          gs == s1.games[g]
          s2 == [s1 EXCEPT !.cur[c] = g, !.rooms[c] = @ \cup {g}]
          s3 == Emit(s2, ToSocket(c), "game_joined",
                     [role |-> token.role, fen |-> gs.game,
                      lastMove |-> gs.lastMove,
                      timeLeft |-> getTimeLeft(gs, now),
                      isPrivate |-> gs.isPrivate])
          s4 == Emit(s3, ToRoom(s3, g), "player_joined",
                     [white |-> gs.white, black |-> gs.black,
                      spectators |-> gs.spectators,
                      timeLeft |-> getTimeLeft(gs, now),
                      status |-> IF gs.white # None /\ gs.black # None
                                   THEN "playing" ELSE "waiting"])
      IN Done(s4, "ok")

\* ---- make_move ----
\* socket.ts 638-655 with makeMove up to its await
MoveHead(s, c, mv) ==
    LET g == s.cur[c]
    IN IF g = None THEN Done(s, "nocontext")
       ELSE IF g \notin DOMAIN s.games THEN Done(s, "rejected")
       ELSE LET r == makeMove(s.games[g], c, mv, now)
                s1 == [s EXCEPT !.games[g] = r.gs]
            IN IF r.ok
                 THEN [s |-> saveGameState(s1, g),
                       susp |-> <<Task("make_move", c, "makeMove", g,
                                       NoParams, None, mv, storeUp)>>,
                       res |-> "accepted"]
                 ELSE Done(s1, "rejected")

\* socket.ts 657-669, with the connection's currentGameId as it is now
MovePost(s, c, mv) ==
    LET g == s.cur[c]
    IN IF g = None \/ g \notin DOMAIN s.games
         THEN Done(Emit(s, {}, "move_made",
                        [from |-> mv[1], to |-> mv[2], fen |-> None,
                         isGameOver |-> FALSE,
                         timeLeft |-> [white |-> DEFAULT_TIME,
                                       black |-> DEFAULT_TIME]]), "ok")
         ELSE LET timeLeft == getTimeLeft(s.games[g], now)
                  o == isGameOver(s.games[g])
                  s1 == [s EXCEPT !.games[g] = o.gs]
              IN Done(Emit(s1, ToRoom(s1, g), "move_made",
                           [from |-> mv[1], to |-> mv[2],
                            fen |-> s.games[g].game,
                            isGameOver |-> o.over,
                            timeLeft |-> timeLeft]), "ok")

\* ---- get_valid_moves (socket.ts 684-698) ----
ValidMoves(s, c, sq) ==
    LET g == s.cur[c]
    IN IF g = None THEN Done(s, "nocontext")
       ELSE Done(Emit(s, ToSocket(c), "valid_moves",
                      IF g \in DOMAIN s.games
                        THEN getValidMoves(s.games[g], sq) ELSE {}), "ok")

\* ---- check_game_privacy (socket.ts 471-478) ----
CheckPrivacy(s, c, g) ==
    IF g \notin DOMAIN s.games
      THEN Fail(s, c, "Game not found")
      ELSE Done(Emit(s, ToSocket(c), "game_privacy_check",
                     [isPrivate |-> s.games[g].isPrivate]), "ok")

\* ---- disconnect (socket.ts 704-731) ----
DisconnectHead(s, c) ==
    LET s0 == [s EXCEPT !.rooms[c] = {}]    \* socket.io leaves every room
    IN IF s0.cur[c] = None
         THEN Done(s0, "ok")
         ELSE LET l == leaveGame(s0, s0.cur[c], c)
              IN IF l.await
                   THEN Await(l.s, Task("disconnect", c, "leaveGame",
                                        s0.cur[c], NoParams, None, NoMove,
                                        storeUp))
                   ELSE Done(l.s, "ok")


(***************************************************************************)
(* Initial state: the server is up, the connections are established and   *)
(* anonymous, no game exists.                                             *)
(***************************************************************************)
EmptyMap == [x \in {} |-> None]

Init ==
    /\ games = EmptyMap
    /\ tracked = EmptyMap
    /\ currentGameId = [c \in Conns |-> None]
    /\ rooms = [c \in Conns |-> {}]
    /\ connected = [c \in Conns |-> TRUE]
    /\ tokens = {}
    /\ now = TickMs
    /\ tasks = <<>>
    /\ store = EmptyMap
    /\ storeUp = TRUE
    /\ budget = MaxCommands
    /\ seen = {}
    /\ out = <<>>
    /\ last = Step("init", None, None, "ok", NoMove)

(***************************************************************************)
(* Inputs of the commands.                                                *)
(***************************************************************************)
PublicParams == { [isPrivate |-> FALSE, password |-> None] }
PrivateParams ==
    { [isPrivate |-> TRUE, password |-> None] }
      \cup { [isPrivate |-> TRUE, password |-> pw] : pw \in Passwords }
JoinPasswords == {WrongPassword} \cup Passwords
PresentedTokens(g) == tokens \cup {NoToken, ForgedToken(g, "black")}

FreeIds == GameIds \ DOMAIN games
\* Math.random().toString(36).substring(2, 8)
NextId == NewIds[Cardinality(DOMAIN games) + 1]
\* create_game handlers that have not yet drawn their game id
Undrawn ==
    {i \in DOMAIN tasks : tasks[i].op = "create_game"
                          /\ tasks[i].pc \in {"leaveGame", "hash"}}
\* a connected socket sends a command
Receive(c) ==
    /\ connected[c]
    /\ Len(tasks) < MaxTasks
    /\ budget > 0
    /\ budget' = budget - 1
    /\ \A k \in DOMAIN SocketIds :
         SocketIds[k] = c => \A j \in 1..(k - 1) : SocketIds[j] \in seen
    /\ seen' = seen \cup {c}

\* Redis answers in the order of the requests; bcrypt in any order
OnCpu(t) == t.pc \in {"hash", "compare"}
Resumable(i) ==
    /\ i \in DOMAIN tasks
    /\ OnCpu(tasks[i]) \/ \A j \in 1..(i - 1) : OnCpu(tasks[j])
Others(i) == SubSeq(tasks, 1, i - 1) \o SubSeq(tasks, i + 1, Len(tasks))

Env == UNCHANGED <<connected, now, storeUp>>

(***************************************************************************)
(* Commands.                                                              *)
(***************************************************************************)
Create(c, params) ==
    /\ Receive(c)
    /\ Cardinality(FreeIds) > Cardinality(Undrawn)
    /\ \E p \in params :
         LET r == CreateHead(Cur, c, p, NextId)
         IN Commit(r.s, r.susp, tasks,
                   Step("create_game", c, currentGameId[c], r.res, NoMove))
    /\ Env

Join(c, passwords) ==
    /\ Receive(c)
    /\ \E g \in GameIds, pw \in passwords :
         LET r == JoinHead(Cur, c, g, pw)
         IN Commit(r.s, r.susp, tasks,
                   [Step("join_game", c, g, r.res, NoMove)
                      EXCEPT !.password = pw])
    /\ Env

\* create_game {isPrivate: false}
create_game(c) == Create(c, PublicParams)
\* create_game {isPrivate: true, password?}
create_private_game(c) == Create(c, PrivateParams)
\* join_game {gameId}
join_game(c) == Join(c, {None})
\* join_game {gameId, password}
join_game_with_password(c) == Join(c, JoinPasswords)

rejoin_game(c) ==
    /\ Receive(c)
    /\ \E g \in GameIds : \E token \in PresentedTokens(g) :
         LET r == RejoinGame(Cur, c, g, token)
         IN Commit(r.s, r.susp, tasks,
                   [Step("rejoin_game", c, g, r.res, NoMove)
                      EXCEPT !.token = token])
    /\ Env

make_move(c) ==
    /\ Receive(c)
    /\ \E mv \in MoveInputs :
         LET r == MoveHead(Cur, c, mv)
         IN /\ \A g \in DOMAIN r.s.games :
                 /\ r.s.games[g].timeWhite >= MinClock
                 /\ r.s.games[g].timeBlack >= MinClock
            /\ Commit(r.s, r.susp, tasks,
                   Step("make_move", c, currentGameId[c], r.res, mv))
    /\ Env

get_valid_moves(c) ==
    /\ Receive(c)
    /\ \E sq \in QuerySquares :
         LET r == ValidMoves(Cur, c, sq)
         IN Commit(r.s, r.susp, tasks,
                   Step("get_valid_moves", c, currentGameId[c], r.res, NoMove))
    /\ Env

check_game_privacy(c) ==
    /\ Receive(c)
    /\ \E g \in GameIds :
         LET r == CheckPrivacy(Cur, c, g)
         IN Commit(r.s, r.susp, tasks,
                   Step("check_game_privacy", c, g, r.res, NoMove))
    /\ Env

disconnect(c) ==
    /\ Receive(c)
    /\ LET r == DisconnectHead(Cur, c)
       IN Commit(r.s, r.susp, tasks,
                 Step("disconnect", c, currentGameId[c], r.res, NoMove))
    /\ connected' = [connected EXCEPT ![c] = FALSE]
    /\ UNCHANGED <<now, storeUp>>

(***************************************************************************)
(* Completion of an awaited operation: the handler runs on.               *)
(***************************************************************************)
Resume(i, r, act) ==
    /\ Commit(r.s, r.susp, Others(i),
              [Step(act, tasks[i].conn, tasks[i].gameId, r.res, tasks[i].mv)
                 EXCEPT !.password = tasks[i].params.password])
    /\ Env
    /\ UNCHANGED <<budget, seen>>

create_game_left(i) ==
    /\ Resumable(i)
    /\ tasks[i].op = "create_game" /\ tasks[i].pc = "leaveGame"
    /\ LET t == tasks[i]
       IN Resume(i, IF t.ok
                      THEN CreateBody(LeaveTail(Cur, t.gameId, t.conn, TRUE),
                                      t.conn, t.params, NextId)
                      ELSE Fail(Cur, t.conn, "Failed to create game"),
                 "create_game_left")

create_game_hashed(i) ==
    /\ Resumable(i)
    /\ tasks[i].op = "create_game" /\ tasks[i].pc = "hash"
    /\ LET t == tasks[i]
       IN Resume(i, CreateGameCall(Cur, t.conn, t.params,
                                   hash(t.params.password), NextId),
                 "create_game_hashed")

create_game_created(i) ==
    /\ Resumable(i)
    /\ tasks[i].op = "create_game" /\ tasks[i].pc = "createGame"
    /\ LET t == tasks[i]
       IN Resume(i, IF t.ok
                      THEN CreateJoinCall(Cur, t.conn, t.gameId, t.params)
                      ELSE Fail(Cur, t.conn, "Failed to create game"),
                 "create_game_created")

create_game_joined(i) ==
    /\ Resumable(i)
    /\ tasks[i].op = "create_game" /\ tasks[i].pc = "joinGame"
    /\ LET t == tasks[i]
       IN Resume(i, IF t.ok
                      THEN CreatePost(Cur, t.conn, t.gameId, t.params, t.role)
                      ELSE Fail(Cur, t.conn, "Failed to create game"),
                 "create_game_joined")

join_game_compared(i) ==
    /\ Resumable(i)
    /\ tasks[i].op = "join_game" /\ tasks[i].pc = "compare"
    /\ LET t == tasks[i]
       IN Resume(i, IF compare(t.params.password,
                               games[t.gameId].passwordHash)
                      THEN JoinBody(Cur, t.conn, t.gameId, t.params.password)
                      ELSE Done(Emit(Cur, ToSocket(t.conn), "password_error",
                                     "Invalid password"), "invalid_password"),
                 "join_game_compared")

join_game_joined(i) ==
    /\ Resumable(i)
    /\ tasks[i].op = "join_game" /\ tasks[i].pc = "joinGame"
    /\ LET t == tasks[i]
       IN Resume(i, IF t.ok
                      THEN JoinPost(Cur, t.conn, t.gameId, t.role)
                      ELSE Fail(Cur, t.conn, "Failed to join game"),
                 "join_game_joined")

make_move_saved(i) ==
    /\ Resumable(i)
    /\ tasks[i].op = "make_move" /\ tasks[i].pc = "makeMove"
    /\ LET t == tasks[i]
       IN Resume(i, IF t.ok
                      THEN MovePost(Cur, t.conn, t.mv)
                      ELSE Done(Cur, "error"),
                 "make_move_saved")

disconnect_left(i) ==
    /\ Resumable(i)
    /\ tasks[i].op = "disconnect" /\ tasks[i].pc = "leaveGame"
    /\ LET t == tasks[i]
       IN Resume(i, IF t.ok
                      THEN Done(LeaveTail(Cur, t.gameId, t.conn, TRUE), "ok")
                      ELSE Done(Cur, "error"),
                 "disconnect_left")

(***************************************************************************)
(* Environment: the wall clock and the reachability of Redis.             *)
(***************************************************************************)
Quiet(act) ==
    /\ out' = <<>>
    /\ last' = Step(act, None, None, "ok", NoMove)
    /\ UNCHANGED <<games, tracked, currentGameId, rooms, connected, tokens,
                   tasks, store, budget, seen>>

Tick ==
    /\ now < TickMs * (MaxTicks + 1)
    /\ now' = now + TickMs
    /\ UNCHANGED storeUp
    /\ Quiet("tick")

StoreDown ==
    /\ storeUp
    /\ storeUp' = FALSE
    /\ UNCHANGED now
    /\ Quiet("store_down")

StoreBack ==
    /\ ~storeUp
    /\ storeUp' = TRUE
    /\ UNCHANGED now
    /\ Quiet("store_back")

\* public games, Redis reachable throughout
Next ==
    \/ \E c \in Conns : create_game(c)
    \/ \E c \in Conns : join_game(c)
    \/ \E c \in Conns : rejoin_game(c)
    \/ \E c \in Conns : make_move(c)
    \/ \E c \in Conns : get_valid_moves(c)
    \/ \E c \in Conns : check_game_privacy(c)
    \/ \E c \in Conns : disconnect(c)
    \/ \E i \in 1..MaxTasks : create_game_left(i)
    \/ \E i \in 1..MaxTasks : create_game_created(i)
    \/ \E i \in 1..MaxTasks : create_game_joined(i)
    \/ \E i \in 1..MaxTasks : join_game_joined(i)
    \/ \E i \in 1..MaxTasks : make_move_saved(i)
    \/ \E i \in 1..MaxTasks : disconnect_left(i)
    \/ Tick

Spec == Init /\ [][Next]_vars

\* the state in which the first connection has created a public game and
\* the second has joined it: the game is being played
InitPlaying ==
    /\ connected = [c \in Conns |-> TRUE]
    /\ now = TickMs
    /\ storeUp = TRUE
    /\ tasks = <<>>
    /\ budget = MaxCommands - 1
    /\ seen = {SocketIds[1], SocketIds[2]}
    /\ LET c1 == SocketIds[1]
           c2 == SocketIds[2]
           id == NewIds[1]
           p == [isPrivate |-> FALSE, password |-> None]
           s0 == [games |-> EmptyMap, tracked |-> EmptyMap,
                  cur |-> [x \in Conns |-> None],
                  rooms |-> [x \in Conns |-> {}], tokens |-> {},
                  store |-> EmptyMap, out |-> <<>>]
           s1 == CreateGameCall(s0, c1, p, NoHash, id).s
           s2 == CreateJoinCall(s1, c1, id, p).s
           s3 == CreatePost(s2, c1, id, p, "white").s
           s4 == JoinBody([s3 EXCEPT !.out = <<>>], c2, id, None).s
           s5 == JoinPost(s4, c2, id, "black").s
       IN /\ games = s5.games
          /\ tracked = s5.tracked
          /\ currentGameId = s5.cur
          /\ rooms = s5.rooms
          /\ tokens = s5.tokens
          /\ store = s5.store
          /\ out = s5.out
          /\ last = Step("join_game_joined", c2, id, "ok", NoMove)

SpecPlaying == InitPlaying /\ [][Next]_vars

\* private games and Redis failures as well
NextFull ==
    \/ Next
    \/ \E c \in Conns : create_private_game(c)
    \/ \E c \in Conns : join_game_with_password(c)
    \/ \E i \in 1..MaxTasks : create_game_hashed(i)
    \/ \E i \in 1..MaxTasks : join_game_compared(i)
    \/ StoreDown
    \/ StoreBack

SpecFull == Init /\ [][NextFull]_vars

\* private games: creation with and without a password, joins with and
\* without one, departures
NextPrivate ==
    \/ \E c \in Conns : create_private_game(c)
    \/ \E c \in Conns : join_game(c)
    \/ \E c \in Conns : join_game_with_password(c)
    \/ \E c \in Conns : disconnect(c)
    \/ \E i \in 1..MaxTasks : create_game_left(i)
    \/ \E i \in 1..MaxTasks : create_game_hashed(i)
    \/ \E i \in 1..MaxTasks : create_game_created(i)
    \/ \E i \in 1..MaxTasks : create_game_joined(i)
    \/ \E i \in 1..MaxTasks : join_game_compared(i)
    \/ \E i \in 1..MaxTasks : join_game_joined(i)
    \/ \E i \in 1..MaxTasks : disconnect_left(i)

SpecPrivate == Init /\ [][NextPrivate]_vars

\* a game being played while Redis comes and goes: joins, moves and
\* departures whose save may be rejected
NextOutage ==
    \/ \E c \in Conns : join_game(c)
    \/ \E c \in Conns : make_move(c)
    \/ \E c \in Conns : disconnect(c)
    \/ \E i \in 1..MaxTasks : join_game_joined(i)
    \/ \E i \in 1..MaxTasks : make_move_saved(i)
    \/ \E i \in 1..MaxTasks : disconnect_left(i)
    \/ StoreDown
    \/ StoreBack

SpecOutage == InitPlaying /\ [][NextOutage]_vars

\* the state in which two public games are being played: the first
\* connection created one, the third the other, and the second joined both
\* (join_game does not leave the game joined before)
InitTwoGames ==
    /\ connected = [c \in Conns |-> TRUE]
    /\ now = TickMs
    /\ storeUp = TRUE
    /\ tasks = <<>>
    /\ budget = MaxCommands - 1
    /\ seen = Conns
    /\ LET c1 == SocketIds[1]
           c2 == SocketIds[2]
           c3 == SocketIds[3]
           id1 == NewIds[1]
           id2 == NewIds[2]
           p == [isPrivate |-> FALSE, password |-> None]
           s0 == [games |-> EmptyMap, tracked |-> EmptyMap,
                  cur |-> [x \in Conns |-> None],
                  rooms |-> [x \in Conns |-> {}], tokens |-> {},
                  store |-> EmptyMap, out |-> <<>>]
           s1 == CreateGameCall(s0, c1, p, NoHash, id1).s
           s2 == CreateJoinCall(s1, c1, id1, p).s
           s3 == CreatePost(s2, c1, id1, p, "white").s
           s4 == JoinBody(s3, c2, id1, None).s
           s5 == JoinPost(s4, c2, id1, "black").s
           s6 == CreateGameCall(s5, c3, p, NoHash, id2).s
           s7 == CreateJoinCall(s6, c3, id2, p).s
           s8 == CreatePost(s7, c3, id2, p, "white").s
           s9 == JoinBody([s8 EXCEPT !.out = <<>>], c2, id2, None).s
           s10 == JoinPost(s9, c2, id2, "black").s
       IN /\ games = s10.games
          /\ tracked = s10.tracked
          /\ currentGameId = s10.cur
          /\ rooms = s10.rooms
          /\ tokens = s10.tokens
          /\ store = s10.store
          /\ out = s10.out
          /\ last = Step("join_game_joined", c2, id2, "ok", NoMove)

\* two games side by side: moves, queries, joins, rejoins and disconnects
NextTwoGames ==
    \/ \E c \in Conns : join_game(c)
    \/ \E c \in Conns : rejoin_game(c)
    \/ \E c \in Conns : make_move(c)
    \/ \E c \in Conns : get_valid_moves(c)
    \/ \E c \in Conns : disconnect(c)
    \/ \E i \in 1..MaxTasks : join_game_joined(i)
    \/ \E i \in 1..MaxTasks : make_move_saved(i)
    \/ \E i \in 1..MaxTasks : disconnect_left(i)
    \/ Tick

SpecTwoGames == InitTwoGames /\ [][NextTwoGames]_vars

\* the state in which black of the first game is vacant again: the second
\* connection joined the first connection's game as black and then left it
\* by creating a game of its own; it still has its token for black
InitVacated ==
    /\ connected = [c \in Conns |-> TRUE]
    /\ now = TickMs
    /\ storeUp = TRUE
    /\ tasks = <<>>
    /\ budget = MaxCommands - 1
    /\ seen = {SocketIds[1], SocketIds[2]}
    /\ LET c1 == SocketIds[1]
           c2 == SocketIds[2]
           id1 == NewIds[1]
           id2 == NewIds[2]
           p == [isPrivate |-> FALSE, password |-> None]
           s0 == [games |-> EmptyMap, tracked |-> EmptyMap,
                  cur |-> [x \in Conns |-> None],
                  rooms |-> [x \in Conns |-> {}], tokens |-> {},
                  store |-> EmptyMap, out |-> <<>>]
           s1 == CreateGameCall(s0, c1, p, NoHash, id1).s
           s2 == CreateJoinCall(s1, c1, id1, p).s
           s3 == CreatePost(s2, c1, id1, p, "white").s
           s4 == JoinBody(s3, c2, id1, None).s
           s5 == JoinPost(s4, c2, id1, "black").s
           s6 == leaveGame(s5, id1, c2).s
           s7 == LeaveTail(s6, id1, c2, TRUE)
           s8 == CreateGameCall(s7, c2, p, NoHash, id2).s
           s9 == CreateJoinCall(s8, c2, id2, p).s
           s10 == CreatePost([s9 EXCEPT !.out = <<>>], c2, id2, p, "white").s
       IN /\ games = s10.games
          /\ tracked = s10.tracked
          /\ currentGameId = s10.cur
          /\ rooms = s10.rooms
          /\ tokens = s10.tokens
          /\ store = s10.store
          /\ out = s10.out
          /\ last = Step("create_game_joined", c2, id2, "ok", NoMove)

\* joins, rejoins and departures around the vacant colour
NextVacated ==
    \/ \E c \in Conns : join_game(c)
    \/ \E c \in Conns : rejoin_game(c)
    \/ \E c \in Conns : disconnect(c)
    \/ \E i \in 1..MaxTasks : join_game_joined(i)
    \/ \E i \in 1..MaxTasks : disconnect_left(i)

SpecVacated == InitVacated /\ [][NextVacated]_vars


(***************************************************************************)
(* Properties.                                                            *)
(***************************************************************************)
\* the connection holds the colour whose turn it is
ToMove(gs, c) ==
    \/ turn(gs.game) = "w" /\ gs.white = c
    \/ turn(gs.game) = "b" /\ gs.black = c

InRoster(gs, c) == gs.white = c \/ gs.black = c \/ c \in gs.spectators

\* the step just taken is the synchronous part of a make_move on a game
MoveStep == last'.act = "make_move" /\ last'.gameId \in DOMAIN games

\* C1: a make_move from a connection that does not hold the colour to move
\* (the other colour, an observer, a non-member) is rejected, and no game
\* state changes: position, lastMove, clocks, startTime, status, roster;
\* nothing is written to the store.
C1_OutOfTurnRejected ==
    [][ (MoveStep /\ ~ToMove(games[last'.gameId], last'.conn))
          => /\ last'.res = "rejected"
             /\ games' = games
             /\ store' = store
             /\ tasks' = tasks ]_vars

\* C1 witness: black has just sent a move on white's turn and was rejected
C1_Witness ==
    /\ last.act = "make_move" /\ last.res = "rejected"
    /\ last.gameId \in DOMAIN games
    /\ LET gs == games[last.gameId]
       IN /\ gs.black = last.conn
          /\ gs.white \notin {None, last.conn}
          /\ turn(gs.game) = "w"

\* C2: a make_move by the side to move that the rules engine finds illegal
\* is rejected and leaves the game state unchanged, both clocks and
\* startTime included.
C2_IllegalMoveLeavesState ==
    [][ (MoveStep /\ ToMove(games[last'.gameId], last'.conn)
                  /\ ~legal(games[last'.gameId].game, last'.mv))
          => /\ last'.res = "rejected"
             /\ games' = games ]_vars

\* C3: once a game's status is ended, its position and lastMove never
\* change again.
C3_EndedAcceptsNoMove ==
    [][ \A g \in DOMAIN games :
          games[g].status = "ended"
            => /\ games'[g].game = games[g].game
               /\ games'[g].lastMove = games[g].lastMove ]_vars

\* the latest accepted move on game g whose store write is still awaited
\* was sent by connection c: another make_move of c is for the same turn
MoveInFlight(g, c) ==
    \E i \in DOMAIN tasks :
        /\ tasks[i].op = "make_move" /\ tasks[i].gameId = g
        /\ tasks[i].conn = c
        /\ \A j \in (i + 1)..Len(tasks) :
             ~(tasks[j].op = "make_move" /\ tasks[j].gameId = g)

JoinStep ==
    last'.act \in {"join_game", "join_game_compared", "join_game_joined",
                   "create_game_created", "create_game_joined"}

\* C5: each colour of a game is held by at most one connection (or by
\* none), and a join never replaces the holder of an occupied colour.
C5_JoinNeverReplaces ==
    [][ JoinStep
          => \A g \in DOMAIN games :
               /\ games'[g].white \in Conns \cup {None}
               /\ games'[g].black \in Conns \cup {None}
               /\ games[g].white # None => games'[g].white = games[g].white
               /\ games[g].black # None => games'[g].black = games[g].black
      ]_vars

\* C5 witness: a connection has just joined a game whose two colours were
\* taken by others, and became a spectator
C5_Witness ==
    /\ last.act = "join_game" /\ last.res = "pending"
    /\ last.gameId \in DOMAIN games
    /\ LET gs == games[last.gameId]
       IN /\ gs.white \notin {None, last.conn}
          /\ gs.black \notin {None, last.conn}
          /\ last.conn \in gs.spectators

\* C6: when no command is in progress, a connection is in the roster of at
\* most one game.
C6_OneSessionPerIdentity ==
    tasks = <<>>
      => \A c \in Conns :
           Cardinality({g \in DOMAIN games : InRoster(games[g], c)}) <= 1

\* C7: within a game a connection holds at most one role.
C7_OneRolePerSession ==
    \A g \in DOMAIN games : \A c \in Conns :
        /\ ~(games[g].white = c /\ games[g].black = c)
        /\ ~(c \in games[g].spectators
               /\ (games[g].white = c \/ games[g].black = c))

\* C8: whenever both colours of a game are occupied and the game has not
\* ended, its status is playing and its startTime is set.
C8_BothSeatedIsPlaying ==
    \A g \in DOMAIN games :
        (games[g].white # None /\ games[g].black # None
           /\ games[g].status # "ended")
          => /\ games[g].status = "playing"
             /\ games[g].startTime # NoTime

\* C9: a game is created waiting, and once its status is ended no step
\* changes it.
C9_EndedIsTerminal ==
    [][ /\ \A g \in DOMAIN games' \ DOMAIN games :
             games'[g].status = "waiting"
        /\ \A g \in DOMAIN games :
             games[g].status = "ended" => games'[g].status = "ended" ]_vars

\* C9 witness: a player has just disconnected from an ended game, which is
\* still ended
C9_Witness ==
    /\ last.act = "disconnect"
    /\ last.gameId \in DOMAIN games
    /\ games[last.gameId].status = "ended"
    /\ games[last.gameId].white = None \/ games[last.gameId].black = None

\* C10: when a connection holding a colour leaves its game (disconnect, or
\* create_game while bound), the colour becomes vacant, a playing game
\* becomes waiting and an ended game stays ended.
C10_LeaveRevertsToWaiting ==
    [][ (/\ last'.act \in {"disconnect", "create_game"}
         /\ last'.gameId \in DOMAIN games
         /\ wasPlayer(games[last'.gameId], last'.conn))
          => LET old == games[last'.gameId]
                 new == games'[last'.gameId]
             IN /\ old.white = last'.conn => new.white = None
                /\ old.black = last'.conn => new.black = None
                /\ old.status = "playing" => new.status = "waiting"
                /\ old.status = "ended" => new.status = "ended" ]_vars

\* every command of connection c has finished processing
Finished(c) == \A i \in DOMAIN tasks : tasks[i].conn # c

\* C11: once a connection has disconnected and none of its commands is still
\* in progress, it holds no colour and is no spectator of any game, also
\* when it disconnected while its create_game or join_game was awaiting.
C11_DisconnectedHoldsNothing ==
    \A c \in Conns :
        (~connected[c] /\ Finished(c))
          => \A g \in DOMAIN games : ~InRoster(games[g], c)

\* the game asks joiners for a password
Protected(gs) == gs.isPrivate /\ gs.passwordHash # NoHash
\* the password the game was created with
PasswordOf(gs) == gs.passwordHash[2]

\* the step just taken emitted exactly one event of this type and content,
\* to the connection c alone (to nobody when c has gone)
Unicast(c, type, body) ==
    /\ Len(out') = 1
    /\ out'[1].type = type /\ out'[1].body = body
    /\ out'[1].to \subseteq {c}
    /\ connected[c] => out'[1].to = {c}

\* the step left every roster and status, the bindings and the rooms alone
NothingApplied ==
    /\ games' = games /\ tracked' = tracked
    /\ currentGameId' = currentGameId /\ rooms' = rooms

\* the step just taken completed a join: the connection is bound to the
\* game and is told a role
JoinCompleted(c, g) ==
    /\ currentGameId'[c] = g
    /\ g \in rooms'[c]
    /\ Len(out') = 2
    /\ out'[1].type = "game_joined" /\ out'[1].to \subseteq {c}
    /\ out'[1].body.role \in {"white", "black", "spectator"}

\* C12: on a password-protected game, join_game without a password emits
\* password_error 'Password required' and join_game with a wrong password
\* emits password_error 'Invalid password', each to the requester only and
\* with every roster, status and binding unchanged; join_game with the
\* right password puts the requester in the roster, binds it to the game
\* and tells it a role.
C12_PasswordGate ==
    [][ LET c == last'.conn
            g == last'.gameId
            pw == last'.password
        IN /\ (last'.act = "join_game" /\ g \in DOMAIN games
                  /\ Protected(games[g]))
                => /\ NothingApplied
                   /\ pw = None
                        => /\ Unicast(c, "password_error", "Password required")
                           /\ tasks' = tasks
           /\ (last'.act = "join_game_compared" /\ Protected(games[g]))
                => IF pw # PasswordOf(games[g])
                     THEN /\ NothingApplied
                          /\ Unicast(c, "password_error", "Invalid password")
                          /\ Len(tasks') = Len(tasks) - 1
                     ELSE /\ InRoster(games'[g], c)
                          /\ \/ JoinCompleted(c, g)
                             \/ \E i \in DOMAIN tasks' :
                                  /\ tasks'[i].conn = c /\ tasks'[i].gameId = g
                                  /\ tasks'[i].pc = "joinGame"
           /\ (last'.act = "join_game_joined" /\ Protected(games[g]))
                => JoinCompleted(c, g) ]_vars

\* C12 witness: a wrong password has just been turned down on a protected
\* game that another connection had joined as black with the right one
C12_Witness ==
    /\ last.act = "join_game_compared" /\ last.res = "invalid_password"
    /\ last.password = WrongPassword
    /\ LET gs == games[last.gameId]
       IN /\ Protected(gs)
          /\ gs.white \notin {None, last.conn}
          /\ gs.black \notin {None, last.conn}
          /\ currentGameId[gs.black] = last.gameId
          /\ ~InRoster(gs, last.conn)
          /\ currentGameId[last.conn] = None

\* the step just taken is a rejoin_game
RejoinStep == last'.act = "rejoin_game"

\* the token carries a valid signature and the id of the requested,
\* existing game
Verified(g, token) ==
    token.sig = "valid" /\ token.gameId = g /\ g \in DOMAIN games

\* C13: a rejoin_game with a validly signed token for the requested,
\* existing game and the role black makes the requester the holder of
\* black and sends it the current position; position, lastMove and the
\* stored clocks of the game are the same before and after.
C13_RejoinBlackKeepsPosition ==
    [][ (RejoinStep /\ Verified(last'.gameId, last'.token)
                    /\ last'.token.role = "black")
          => LET c == last'.conn
                 old == games[last'.gameId]
                 new == games'[last'.gameId]
             IN /\ new.black = c
                /\ new.game = old.game /\ new.lastMove = old.lastMove
                /\ new.timeWhite = old.timeWhite
                /\ new.timeBlack = old.timeBlack
                /\ Len(out') = 2
                /\ out'[1].type = "game_joined" /\ out'[1].to = {c}
                /\ out'[1].body.role = "black"
                /\ out'[1].body.fen = old.game
                /\ out'[1].body.lastMove = old.lastMove ]_vars

\* C13 witness: after a move has been played, a connection other than the
\* one the token was issued to has just rejoined as black
C13_Witness ==
    /\ last.act = "rejoin_game" /\ last.res = "ok"
    /\ last.token.role = "black" /\ last.token.playerId # last.conn
    /\ games[last.gameId].black = last.conn
    /\ games[last.gameId].game # StartPos

\* C14: a rejoin_game whose verification fails (no token, a signature that
\* does not validate, a token issued for another game than the requested
\* one, or a game that does not exist) applies nothing: every game's
\* roster, every connection's bound game and rooms are unchanged and no
\* player_joined is emitted.
C14_FailedRejoinAppliesNothing ==
    [][ (RejoinStep /\ ~Verified(last'.gameId, last'.token))
          => /\ NothingApplied
             /\ tokens' = tokens /\ store' = store /\ tasks' = tasks
             /\ \A k \in DOMAIN out' : out'[k].type # "player_joined"
      ]_vars

\* C14 witness: a validly signed token of one game has just been presented
\* for another existing game and was refused
C14_Witness ==
    /\ last.act = "rejoin_game" /\ last.res = "error"
    /\ last.token.sig = "valid"
    /\ last.token.gameId # last.gameId
    /\ last.gameId \in DOMAIN games
    /\ last.token.gameId \in DOMAIN games
    /\ currentGameId[last.conn] # last.gameId

\* the holder of a colour
Holder(gs, role) == IF role = "white" THEN gs.white ELSE gs.black
\* the side to move as the rules engine names it
Side(role) == IF role = "white" THEN "w" ELSE "b"

\* C15: after a successful rejoin_game for a colour the rejoining
\* connection holds the colour; no make_move from the connection that held
\* it before is accepted from then on; and, both colours being occupied, a
\* legal make_move from the rejoined connection on that colour's turn is
\* accepted.
C15_RejoinDisplacesHolder ==
    [][ (RejoinStep /\ Verified(last'.gameId, last'.token)
                    /\ last'.token.role \in {"white", "black"})
          => LET c == last'.conn
                 role == last'.token.role
                 new == games'[last'.gameId]
                 displaced == Holder(games[last'.gameId], role)
             IN /\ Holder(new, role) = c
                /\ displaced \notin {None, c}
                     => \A mv \in MoveInputs :
                          ~makeMove(new, displaced, mv, now').ok
                /\ (new.white # None /\ new.black # None
                      /\ turn(new.game) = Side(role))
                     => \A mv \in MoveInputs :
                          legal(new.game, mv) => makeMove(new, c, mv, now').ok
      ]_vars

\* the step just taken is a make_move that makeMove accepted
AcceptedMove == MoveStep /\ last'.res = "accepted"

\* C16: on every accepted move the stored clock of the side that moved
\* decreases by the time elapsed since the previous startTime (a strict
\* decrease as soon as Date.now() has advanced since then), the stored
\* clock of the other side is unchanged, and startTime becomes the time of
\* the move.
C16_MoverClockCharged ==
    [][ AcceptedMove
          => LET old == games[last'.gameId]
                 new == games'[last'.gameId]
                 elapsed == now - old.startTime
             IN /\ old.startTime # NoTime
                /\ elapsed >= 0
                /\ turn(old.game) = "w"
                     => /\ new.timeWhite = old.timeWhite - elapsed
                        /\ new.timeBlack = old.timeBlack
                /\ turn(old.game) = "b"
                     => /\ new.timeBlack = old.timeBlack - elapsed
                        /\ new.timeWhite = old.timeWhite
                /\ new.startTime = now ]_vars

\* the step just taken is the rest of a make_move handler whose move
\* makeMove accepted and saved: the handler is complete
MoveHandled == last'.act = "make_move_saved" /\ last'.res = "ok"

\* C17: when the make_move handler of an accepted move is complete, the
\* game the move was made in has status ended if its position is terminal
\* for the rules engine or if one of its stored clocks is at or below zero.
C17_TerminalOrFlagIsEnded ==
    [][ MoveHandled
          => LET gs == games'[last'.gameId]
             IN (isGameOverPos(gs.game) \/ gs.timeWhite <= 0
                                        \/ gs.timeBlack <= 0)
                  => gs.status = "ended" ]_vars

\* the moves on game g that were committed after the move whose handler
\* has just completed: their handlers still await the store
CommittedAfter(g) ==
    Cardinality({j \in DOMAIN tasks' : /\ tasks'[j].op = "make_move"
                                        /\ tasks'[j].gameId = g})

\* C18: a move_made broadcast carries the position that the move it names
\* produced (the position ends with that move and holds no move committed
\* later) and, for the side that moved, the clock as that commit left it,
\* also when another move on the game is committed before the broadcast
\* is emitted.
C18_BroadcastIsSnapshot ==
    [][ MoveHandled
          => \A k \in DOMAIN out' :
               (out'[k].type = "move_made" /\ out'[k].to # {})
                 => LET gs == games'[last'.gameId]
                        fen == out'[k].body.fen
                        n == Len(gs.game) - CommittedAfter(last'.gameId)
                    IN /\ fen = SubSeq(gs.game, 1, n)
                       /\ n > 0 /\ fen[n] = last'.mv
                       /\ <<out'[k].body.from, out'[k].body.to>> = last'.mv
                       /\ CommittedAfter(last'.gameId) = 0
                            => IF turn(fen) = "b"
                                 THEN out'[k].body.timeLeft.white = gs.timeWhite
                                 ELSE out'[k].body.timeLeft.black = gs.timeBlack
      ]_vars

\* the connections that are up and bound to game g
BoundTo(g) == {c \in Conns : connected'[c] /\ currentGameId'[c] = g}

\* C19: the handler of an accepted move emits exactly one move_made, and
\* its receivers are exactly the connections bound to the game the move
\* was made in, also when the mover has disconnected or sent create_game
\* in the meantime.
C19_MoveMadeReachesTheGame ==
    [][ MoveHandled
          => /\ Cardinality({k \in DOMAIN out' :
                                out'[k].type = "move_made"}) = 1
             /\ \A k \in DOMAIN out' :
                  out'[k].type = "move_made"
                    => out'[k].to = BoundTo(last'.gameId) ]_vars

\* the step just taken is a make_move that was not accepted: the sender is
\* bound to no game, the game does not exist, or makeMove returned false
RejectedMove ==
    last'.act = "make_move" /\ last'.res \in {"rejected", "nocontext"}

\* C20: a rejected make_move (out of turn, illegal, no game, game ended)
\* emits an error event to the connection that sent it, and nothing to any
\* other connection.
C20_RejectionIsUnicastError ==
    [][ RejectedMove
          => /\ \E k \in DOMAIN out' :
                  out'[k].type = "error" /\ out'[k].to = {last'.conn}
             /\ \A k \in DOMAIN out' : out'[k].to \subseteq {last'.conn}
      ]_vars

\* the step just taken completed a join_game successfully: after the store
\* write, or at once for a connection that is already in the roster
JoinSucceeded ==
    \/ last'.act = "join_game_joined" /\ last'.res = "ok"
    \/ /\ last'.act = "join_game" /\ last'.gameId \in DOMAIN games
       /\ ~Protected(games[last'.gameId])
       /\ InRoster(games[last'.gameId], last'.conn)
    \/ /\ last'.act = "join_game_compared"
       /\ Protected(games[last'.gameId])
       /\ last'.password = PasswordOf(games[last'.gameId])
       /\ InRoster(games[last'.gameId], last'.conn)

\* the step just taken is a rejoin_game that passed the verification
RejoinSucceeded == RejoinStep /\ Verified(last'.gameId, last'.token)

\* C21: every successful join_game or rejoin_game emits a player_joined
\* that every connection bound to the game receives and whose white, black
\* and spectators are the roster of the game after the join.
C21_PlayerJoinedIsRoster ==
    [][ (JoinSucceeded \/ RejoinSucceeded)
          => \E k \in DOMAIN out' :
               /\ out'[k].type = "player_joined"
               /\ BoundTo(last'.gameId) \subseteq out'[k].to
               /\ out'[k].body.white = games'[last'.gameId].white
               /\ out'[k].body.black = games'[last'.gameId].black
               /\ out'[k].body.spectators = games'[last'.gameId].spectators
      ]_vars

\* C21 witness: a connection has just rejoined a game to which two other
\* connections are bound, and all three were sent the roster
C21_Witness ==
    /\ last.act = "rejoin_game" /\ last.res = "ok"
    /\ Len(out) = 2 /\ out[2].type = "player_joined"
    /\ Cardinality(out[2].to) = 3
    /\ \A c \in out[2].to : currentGameId[c] = last.gameId
    /\ InRoster(games[last.gameId], last.conn)

\* the preferredColor arguments of joinGame (None: the argument is omitted)
PreferredColors == {"white", "black", "spectator", None}

\* the connection holds this role in the game
HoldsRole(gs, c, role) ==
    \/ role = "white" /\ gs.white = c
    \/ role = "black" /\ gs.black = c
    \/ role = "spectator" /\ c \in gs.spectators

\* the step just taken called joinGame for a connection that was already
\* in the roster of the game
RejoinedByJoin ==
    /\ \/ last'.act = "join_game" /\ last'.gameId \in DOMAIN games
          /\ ~Protected(games[last'.gameId])
       \/ last'.act = "join_game_compared"
          /\ last'.password = PasswordOf(games[last'.gameId])
       \/ last'.act = "create_game_created"
    /\ InRoster(games[last'.gameId], last'.conn)

\* C22: joinGame is idempotent: for a connection that already holds a role
\* in the game it returns a role the connection holds and leaves the game
\* state (roster, status, startTime) as it is, whatever preferred colour is
\* passed, and writes nothing to the store.
C22_JoinIsIdempotent ==
    [][ /\ \A g \in DOMAIN games' : \A c \in Conns :
             \A pref \in PreferredColors :
               InRoster(games'[g], c)
                 => LET r == joinGame(games'[g], c, pref, now')
                    IN /\ r.gs = games'[g]
                       /\ HoldsRole(games'[g], c, r.role)
                       /\ ~r.saves
        /\ RejoinedByJoin => games' = games /\ store' = store ]_vars

\* C22 witness: a spectator of a game has just sent join_game for it again
\* and nothing changed
C22_Witness ==
    /\ last.act = "join_game" /\ last.res = "ok"
    /\ last.gameId \in DOMAIN games
    /\ last.conn \in games[last.gameId].spectators
    /\ ~wasPlayer(games[last.gameId], last.conn)
    /\ store[last.gameId] = games[last.gameId]

\* C23: on every successful join_game, the role in the game_joined sent to
\* the requester, and the role in the token issued with it, is a role the
\* game state records for the requester after the join, also when the
\* requester was a member of the game already.
C23_ToldRoleIsRecordedRole ==
    [][ JoinSucceeded
          => \A k \in DOMAIN out' :
               (out'[k].type = "game_joined" /\ last'.conn \in out'[k].to)
                 => /\ HoldsRole(games'[last'.gameId], last'.conn,
                                 out'[k].body.role)
                    /\ HoldsRole(games'[last'.gameId], last'.conn,
                                 out'[k].body.token.role) ]_vars

\* the role the assignment rule gives a newcomer: the preferred colour if
\* vacant, else white if vacant, else black if vacant, else spectator
RoleByRule(gs, preferredColor) ==
    IF preferredColor = "white" /\ gs.white = None THEN "white"
    ELSE IF preferredColor = "black" /\ gs.black = None THEN "black"
    ELSE IF gs.white = None THEN "white"
    ELSE IF gs.black = None THEN "black"
    ELSE "spectator"

\* the game with the connection added in the role, nothing else changed
\* but the start of the game
Seated(gs, c, role, t) ==
    StartIfReady(IF role = "white" THEN [gs EXCEPT !.white = c]
                 ELSE IF role = "black" THEN [gs EXCEPT !.black = c]
                 ELSE [gs EXCEPT !.spectators = @ \cup {c}], t)

\* the step just taken called joinGame, through join_game, for a
\* connection that was not in the roster of the game
NewcomerJoined ==
    /\ \/ last'.act = "join_game" /\ last'.gameId \in DOMAIN games
          /\ ~Protected(games[last'.gameId])
       \/ last'.act = "join_game_compared"
          /\ last'.password = PasswordOf(games[last'.gameId])
    /\ ~InRoster(games[last'.gameId], last'.conn)

\* C24: for a connection not in the roster, joinGame gives the preferred
\* colour if it is vacant, otherwise white if vacant, otherwise black if
\* vacant, otherwise spectator (preferences: white, black, or none); and a
\* newcomer's join_game seats it as white, else black, else spectator.
C24_AssignmentOrder ==
    [][ /\ \A g \in DOMAIN games' : \A c \in Conns :
             \A pref \in {"white", "black", None} :
               ~InRoster(games'[g], c)
                 => LET r == joinGame(games'[g], c, pref, now')
                        role == RoleByRule(games'[g], pref)
                    IN /\ r.role = role
                       /\ r.gs = Seated(games'[g], c, role, now')
        /\ NewcomerJoined
             => games'[last'.gameId]
                  = Seated(games[last'.gameId], last'.conn,
                           RoleByRule(games[last'.gameId], None), now) ]_vars

\* C24 witness: a newcomer has just joined a game whose white was taken and
\* whose black was vacant, and holds black
C24_Witness ==
    /\ last.act = "join_game" /\ last.res = "pending"
    /\ last.gameId \in DOMAIN games
    /\ games[last.gameId].black = last.conn
    /\ games[last.gameId].white \notin {None, last.conn}
    /\ last.conn \notin games[last.gameId].spectators

\* the join_game handlers of other connections that wait for the save of
\* their joinGame on game g
JoinsInFlight(ts, g, c) ==
    {i \in DOMAIN ts : /\ ts[i].op = "join_game" /\ ts[i].pc = "joinGame"
                        /\ ts[i].gameId = g /\ ts[i].conn # c}

OtherColour(role) == IF role = "white" THEN "black" ELSE "white"
HolderOf(gs, role) == IF role = "white" THEN gs.white ELSE gs.black

\* the step just taken called joinGame for a newcomer c on a game that had
\* one vacant colour when the join_game of c2, still in flight, called
\* joinGame: c2 was given that colour, a third connection has the other
RacingJoin(i) ==
    /\ NewcomerJoined
    /\ i \in JoinsInFlight(tasks, last'.gameId, last'.conn)
    /\ tasks[i].role \in {"white", "black"}
    /\ HolderOf(games[last'.gameId], OtherColour(tasks[i].role))
          \notin {None, last'.conn, tasks[i].conn}

\* a join_game of the race completed while the other is in flight: of the
\* role reported and the role the other handler will report one is a
\* colour and one is spectator, and a third connection has the other colour
FirstOfTwoCompleted(j, role) ==
    /\ last'.act = "join_game_joined" /\ last'.res = "ok"
    /\ j \in JoinsInFlight(tasks', last'.gameId, last'.conn)
    /\ \E k \in {"white", "black"} :
         /\ {role, tasks'[j].role} = {k, "spectator"}
         /\ HolderOf(games'[last'.gameId], OtherColour(k))
               \notin {None, last'.conn, tasks'[j].conn}

C26_SaveFailureIsNotAFailure ==
    [][ /\ last'.act = "make_move_saved"
             => \E k \in DOMAIN out' : out'[k].type = "move_made"
        /\ last'.act = "join_game_joined"
             => /\ currentGameId'[last'.conn] = last'.gameId
                /\ \E k \in DOMAIN out' : out'[k].type = "game_joined" ]_vars

\* C27: the position of a game is the initial position advanced by the
\* moves reported as accepted, in order: a game starts from the initial
\* position; its position changes only in a make_move that makeMove
\* accepts, by that move (never in a create, join, rejoin, leave, query or
\* rejected move); and the handler of every move so applied emits
\* move_made for it when its save has returned (the saves return in the
\* order of the moves).
C27_PositionIsReportedMoves ==
    [][ /\ \A g \in DOMAIN games' :
             IF g \in DOMAIN games
               THEN games'[g].game # games[g].game
                      => /\ AcceptedMove /\ g = last'.gameId
                         /\ games'[g].game = Append(games[g].game, last'.mv)
               ELSE games'[g].game = StartPos
        /\ last'.act = "make_move_saved"
             => \E k \in DOMAIN out' :
                  /\ out'[k].type = "move_made"
                  /\ out'[k].body.from = last'.mv[1]
                  /\ out'[k].body.to = last'.mv[2] ]_vars

\* the connected connections bound to game g before the step
WasBoundTo(g) == {c \in Conns : connected[c] /\ currentGameId[c] = g}

\* C28: the tracking entry of a game is removed when, and only when, the
\* last connection bound to the game departs: a step that removes the entry
\* leaves no connection bound to the game, and a step after which no
\* connection is bound to a tracked game any more removes its entry.
C28_TrackedWhileBound ==
    [][ \A g \in DOMAIN tracked :
          /\ g \notin DOMAIN tracked' => BoundTo(g) = {}
          /\ (WasBoundTo(g) # {} /\ BoundTo(g) = {})
                => g \notin DOMAIN tracked' ]_vars

\* the step just taken belongs to a make_move, join_game, rejoin_game,
\* get_valid_moves or disconnect; last'.gameId is the game the command is
\* directed at (for make_move, get_valid_moves and disconnect the game the
\* sender was bound to when it sent the command)
DirectedStep ==
    last'.act \in {"make_move", "make_move_saved", "join_game",
                   "join_game_compared", "join_game_joined", "rejoin_game",
                   "get_valid_moves", "disconnect", "disconnect_left"}

\* C29: a make_move, join_game, rejoin_game or get_valid_moves directed at
\* a game, and the disconnect of a connection bound to it, leave the whole
\* state of every other game unchanged.
C29_OtherGamesUntouched ==
    [][ DirectedStep
          => \A g \in DOMAIN games :
               g # last'.gameId => games'[g] = games[g] ]_vars

\* the clock is running: the game is being played and has a startTime
Running(gs) == gs.status = "playing" /\ gs.startTime # NoTime

\* the step just taken emitted an event that carries getTimeLeft's result
ClocksRead ==
    \E k \in DOMAIN out' :
        out'[k].type \in {"game_joined", "player_joined", "move_made"}

\* the stored clocks and startTime of every game are as before the step
ClocksKept ==
    \A g \in DOMAIN games :
        /\ games'[g].timeWhite = games[g].timeWhite
        /\ games'[g].timeBlack = games[g].timeBlack
        /\ games'[g].startTime = games[g].startTime

\* C30 as claimed: a handler that reads the clocks leaves the stored clocks
\* and startTime as they are; getTimeLeft returns the stored pair unless the
\* game is being played, and then the stored clock of the side not to move
\* and the stored clock of the side to move less the time elapsed since
\* startTime.
C30_ReadClocksDecrement ==
    [][ /\ ClocksRead => ClocksKept
        /\ \A g \in DOMAIN games' :
             LET gs == games'[g]
                 r == getTimeLeft(gs, now')
                 elapsed == now' - gs.startTime
             IN /\ ~Running(gs)
                     => r = [white |-> gs.timeWhite, black |-> gs.timeBlack]
                /\ (Running(gs) /\ turn(gs.game) = "w")
                     => /\ r.black = gs.timeBlack
                        /\ r.white = gs.timeWhite - elapsed
                /\ (Running(gs) /\ turn(gs.game) = "b")
                     => /\ r.white = gs.timeWhite
                        /\ r.black = gs.timeBlack - elapsed ]_vars

\* the clock shown for a stored clock after the elapsed time: never below 0
Shown(clock, elapsed) ==
    IF clock - elapsed >= 0 THEN clock - elapsed ELSE 0

\* C30 as amended: a handler that reads the clocks leaves the stored clocks
\* and startTime as they are; getTimeLeft returns the stored pair unless the
\* game is being played, and then the stored clock of the side not to move
\* and the stored clock of the side to move less the time elapsed since
\* startTime, but 0 where that difference is negative.
C30_ReadClocksClamped ==
    [][ /\ ClocksRead => ClocksKept
        /\ \A g \in DOMAIN games' :
             LET gs == games'[g]
                 r == getTimeLeft(gs, now')
                 elapsed == now' - gs.startTime
             IN /\ ~Running(gs)
                     => r = [white |-> gs.timeWhite, black |-> gs.timeBlack]
                /\ (Running(gs) /\ turn(gs.game) = "w")
                     => /\ r.black = gs.timeBlack
                        /\ r.white = Shown(gs.timeWhite, elapsed)
                /\ (Running(gs) /\ turn(gs.game) = "b")
                     => /\ r.white = gs.timeWhite
                        /\ r.black = Shown(gs.timeBlack, elapsed) ]_vars

\* C30 witness: a rejoin_game has just reported the clocks of a game being
\* played, white to move: white's clock less the elapsed time, black's as
\* stored, and the stored clocks are what they were
C30_Witness ==
    /\ last.act = "rejoin_game" /\ last.res = "ok"
    /\ Running(games[last.gameId]) /\ turn(games[last.gameId].game) = "w"
    /\ now > games[last.gameId].startTime
    /\ games[last.gameId].timeWhite = DEFAULT_TIME
    /\ \E k \in DOMAIN out :
         /\ out[k].type = "game_joined"
         /\ out[k].body.timeLeft.white
              = DEFAULT_TIME - (now - games[last.gameId].startTime)
         /\ out[k].body.timeLeft.white > 0
         /\ out[k].body.timeLeft.black = games[last.gameId].timeBlack

\* the step just taken is a get_valid_moves
QueryStep == last'.act = "get_valid_moves"

\* C31: a get_valid_moves changes no game, binding, room, tracking entry or
\* stored record and suspends nothing; whatever it emits goes to the
\* requester only; and its valid_moves response is the empty set whenever
\* the game the requester is bound to is absent or has a vacant colour.
C31_QueryIsReadOnlyUnicast ==
    [][ QueryStep
          => /\ NothingApplied
             /\ store' = store /\ tokens' = tokens /\ tasks' = tasks
             /\ \A k \in DOMAIN out' :
                  /\ out'[k].to \subseteq {last'.conn}
                  /\ out'[k].type = "valid_moves"
                  /\ (\/ last'.gameId \notin DOMAIN games
                      \/ games[last'.gameId].white = None
                      \/ games[last'.gameId].black = None)
                       => out'[k].body = {} ]_vars

\* C31 witness: the creator of a game whose black is vacant has just asked
\* for the moves of a square and was sent the empty set, alone
C31_Witness ==
    /\ last.act = "get_valid_moves" /\ last.res = "ok"
    /\ last.gameId \in DOMAIN games
    /\ games[last.gameId].white = last.conn
    /\ games[last.gameId].black = None
    /\ out = <<[type |-> "valid_moves", to |-> {last.conn}, body |-> {}]>>

\* the step just taken completed a create_game successfully: game_created
\* was emitted
CreateSucceeded ==
    /\ last'.act \in {"create_game_created", "create_game_joined"}
    /\ last'.res = "ok"

\* C32: when a create_game has completed successfully, the creator holds
\* white of the new game, black is vacant, there are no spectators, the
\* status is waiting, lastMove and startTime are unset, both clocks hold
\* the default time, and the creator is bound to the game.
C32_CreatedGameIsFresh ==
    [][ CreateSucceeded
          => LET gs == games'[last'.gameId]
             IN /\ gs.white = last'.conn
                /\ gs.black = None
                /\ gs.spectators = {}
                /\ gs.status = "waiting"
                /\ gs.lastMove = NoMove
                /\ gs.startTime = NoTime
                /\ gs.timeWhite = DEFAULT_TIME
                /\ gs.timeBlack = DEFAULT_TIME
                /\ currentGameId'[last'.conn] = last'.gameId ]_vars

\* C33: the stored clocks of a game never increase: in every step each of
\* timeWhite and timeBlack is at most what it was.
C33_ClocksNeverIncrease ==
    [][ \A g \in DOMAIN games :
          /\ games'[g].timeWhite <= games[g].timeWhite
          /\ games'[g].timeBlack <= games[g].timeBlack ]_vars

\* C33 witness: a move was made after time had passed and the mover's
\* stored clock is below the default time
C33_Witness ==
    /\ last.act = "make_move" /\ last.res = "accepted"
    /\ games[last.gameId].white = last.conn
    /\ games[last.gameId].timeWhite < DEFAULT_TIME
    /\ games[last.gameId].timeBlack = DEFAULT_TIME

\* the step just taken is a join_game, check_game_privacy or rejoin_game
\* (with a validly signed token) that names a game absent from the map
AbsentGameStep ==
    /\ last'.gameId \notin DOMAIN games
    /\ \/ last'.act \in {"join_game", "check_game_privacy"}
       \/ last'.act = "rejoin_game" /\ last'.token.sig = "valid"

\* what a handler piece leaves when all it did was to send the requester
\* an error
OnlyAnError(r, c) ==
    /\ r.res = "error" /\ r.susp = <<>>
    /\ [r.s EXCEPT !.out = <<>>] = Cur
    /\ Len(r.s.out) = 1
    /\ r.s.out[1].type = "error" /\ r.s.out[1].to = ToSocket(c)

\* C34: a join_game, check_game_privacy or rejoin_game (validly signed
\* token) naming a game that is absent sends one error to the requester
\* and to nobody else, changes no game, stored record, room or tracking
\* entry, suspends nothing and leaves the requester's binding as it is;
\* the same holds for a rejoin_game whose signed token names the absent
\* game itself.
C34_AbsentGameIsUnicastError ==
    [][ /\ AbsentGameStep
             => /\ NothingApplied
                /\ store' = store /\ tokens' = tokens /\ tasks' = tasks
                /\ Len(out') = 1
                /\ out'[1].type = "error"
                /\ out'[1].to = {last'.conn}
        /\ \A c \in Conns : \A g \in GameIds \ DOMAIN games :
             \A role \in {"white", "black", "spectator"} :
               /\ OnlyAnError(RejoinGame(Cur, c, g, Token(g, c, role, FALSE)),
                              c)
               /\ OnlyAnError(JoinHead(Cur, c, g, None), c)
               /\ OnlyAnError(CheckPrivacy(Cur, c, g), c) ]_vars

\* C34 witness: a connection bound to a game has just sent join_game for a
\* game that does not exist; it was sent an error and is bound as before
C34_Witness ==
    /\ last.act = "join_game" /\ last.res = "error"
    /\ last.gameId \notin DOMAIN games
    /\ currentGameId[last.conn] \in DOMAIN games
    /\ out = <<[type |-> "error", to |-> {last.conn},
                body |-> "Game not found"]>>

\* C35: every game created with isPrivate = true is protected by a
\* password: whenever a join_game binds a connection to such a game, the
\* game holds the hash of a password given at its creation and the
\* join_game supplied that password (also when create_game was sent with
\* isPrivate = true and no password).
C35_PrivateMeansProtected ==
    [][ (JoinSucceeded /\ games[last'.gameId].isPrivate
           /\ currentGameId'[last'.conn] = last'.gameId)
          => /\ Protected(games[last'.gameId])
             /\ last'.password = PasswordOf(games[last'.gameId]) ]_vars

\* C36: no make_move is accepted while a colour of the game is vacant:
\* every accepted move is made in a state in which white and black are
\* both occupied and the mover holds the colour whose turn it is.
C36_NoMoveWhileVacant ==
    [][ AcceptedMove
          => /\ games[last'.gameId].white # None
             /\ games[last'.gameId].black # None
             /\ ToMove(games[last'.gameId], last'.conn)
             /\ games'[last'.gameId].white = games[last'.gameId].white
             /\ games'[last'.gameId].black = games[last'.gameId].black
      ]_vars

\* C36 witness: black has just answered white's first move, both colours
\* being held
C36_Witness ==
    /\ last.act = "make_move" /\ last.res = "accepted"
    /\ Len(games[last.gameId].game) = 2
    /\ games[last.gameId].black = last.conn
    /\ games[last.gameId].white \notin {None, last.conn}

\* C37: the status field of every player_joined broadcast equals the stored
\* status of the game at the time of the broadcast (ended for an ended
\* game, never playing for a game whose stored status is waiting).
C37_JoinedStatusIsStored ==
    [][ \A k \in DOMAIN out' :
          out'[k].type = "player_joined"
            => out'[k].body.status = games'[last'.gameId].status ]_vars

\* C38: every clock value reported to clients (timeLeft in game_joined,
\* player_joined and move_made) is at least zero for both colours, also
\* after a move made later than the mover's remaining time.
C38_ReportedClocksNonNegative ==
    \A k \in DOMAIN out :
        out[k].type \in {"game_joined", "player_joined", "move_made"}
          => /\ out[k].body.timeLeft.white >= 0
             /\ out[k].body.timeLeft.black >= 0

\* connection c, bound to game g, has left g in the step just taken:
\* leaveGame, called by its disconnect or its create_game, has run to its
\* end
HasLeft(c, g) ==
    /\ last'.conn = c
    /\ last'.act \in {"disconnect", "disconnect_left",
                      "create_game", "create_game_left"}
    /\ g # None /\ currentGameId[c] = g /\ currentGameId'[c] = None

\* C39: whenever a participant leaves a game (by disconnect, or by
\* create_game while bound) and another connection remains bound to the
\* game, every remaining bound connection receives a player_left roster
\* that shows the vacated seat.
C39_RemainingSeeDeparture ==
    [][ \A c \in Conns, g \in DOMAIN games :
          HasLeft(c, g)
            => \A d \in BoundTo(g) :
                 \E k \in DOMAIN out' :
                   /\ out'[k].type = "player_left"
                   /\ d \in out'[k].to
                   /\ out'[k].body = Roster(games'[g])
                   /\ ~InRoster(games'[g], c) ]_vars

\* C40: whenever no command is in flight and the store is reachable, the
\* persisted record of every game equals its in-memory state (white,
\* black, spectators, position, lastMove, both clocks, startTime, status).
C40_StoreMirrorsMemory ==
    (tasks = <<>> /\ storeUp)
      => \A g \in DOMAIN games :
           /\ g \in DOMAIN store
           /\ store[g] = games[g]

====
